---------------------------- MODULE Spec2Model ----------------------------
(***************************************************************************)
(* Timestamp resolution of the Facebook post scraper.                      *)
(*                                                                         *)
(*   extractPostDateISO / parseLooseDate / normalizeToISO / toISO          *)
(*       (utils/postTime.js, kept here as src/unnamed/part_000)            *)
(*   extractPostDetails (src/src/main.js)                                  *)
(*   runPostDates (src/src/flows/dates.js)                                 *)
(*                                                                         *)
(* Strings are sequences of one-character strings, so that the regular     *)
(* expressions of the source are matched character by character.  A Date   *)
(* is a record [s, ms]: whole seconds since the epoch (UTC) and the        *)
(* millisecond part; the calendar arithmetic is that of ECMAScript's Date  *)
(* (LocalTime, UTC, MakeDay, MakeTime, MakeDate).                          *)
(***************************************************************************)
EXTENDS Integers, Sequences, FiniteSets, TLC

VARIABLES
    entry,      \* the program run: "test" (the parser's test entry), "dates"
                \*   (extractPostDateISO), "main" (main.js) or "batch" (runPostDates)
    tz,         \* the system time zone the process runs in
    clock,      \* the wall clock: what new Date() / Date.now() returns
    pIn,        \* parseLooseDate under test: what its text argument was built from
    pText,      \*   its text argument
    pNow,       \*   its opts.now argument
    pOut,       \*   what it returned (NULL or an ISO string)
    dom,        \* the page: its time, a and span elements in document order
    pc,         \* extractPostDateISO: where it stands
    found,      \*   the harvested candidates
    idx,        \*   the loop index into found (1-based)
    ocrStep,    \*   the next step of the OCR block
    worker,     \*   the tesseract worker: "none", "live" or "terminated"
    ocrText,    \*   data.text of the recognition
    result,     \*   what it returned
    threw,      \*   whether an exception left it
    calls,      \* history: the calls made to normalizeToISO, parseLooseDate, recognize
    startClock, \* history: the wall clock when the resolution began
    dpc,        \* extractPostDetails (main.js): where it stands
    desk,       \*   what the selectors found in the desktop document
    mobile,     \*   what they found in the m.facebook.com document
    post,       \*   the post's create_time_unix, create_time_iso, _ts_source
    urls,       \* runPostDates: the input list
    batchIdx,   \*   the position of postUrl in it (1-based)
    bpc,        \*   where the loop stands
    status,     \*   result.status of the current URL
    dataset,    \*   the records pushed to the dataset, in order
    faults      \* history: for each position of urls, the steps that failed there

parserVars == <<pIn, pText, pNow, pOut>>

detailsVars == <<dpc, desk, mobile, post>>

resolverVars == <<dom, pc, found, idx, ocrStep, worker, ocrText, result, threw, calls,
                  startClock>>

batchVars == <<urls, batchIdx, bpc, status, dataset, faults>>

vars == <<entry, tz, clock, parserVars, resolverVars, detailsVars, batchVars>>

\* null and the empty string are both falsy, and the source only ever tests
\* its strings for truthiness: one value stands for both
NULL == <<>>

\* String.prototype.match found nothing
NoMatch == [none |-> TRUE]

\* an invalid Date (its time value is NaN); a valid one is a record [s, ms]
InvalidDate == [nan |-> TRUE]

isFinite(d) == "s" \in DOMAIN d

(***************************************************************************)
(* Characters and strings                                                  *)
(***************************************************************************)
DigitChars == <<"0", "1", "2", "3", "4", "5", "6", "7", "8", "9">>

UpperChars == <<"A", "B", "C", "D", "E", "F", "G", "H", "I", "J", "K", "L", "M",
                "N", "O", "P", "Q", "R", "S", "T", "U", "V", "W", "X", "Y", "Z">>

LowerChars == <<"a", "b", "c", "d", "e", "f", "g", "h", "i", "j", "k", "l", "m",
                "n", "o", "p", "q", "r", "s", "t", "u", "v", "w", "x", "y", "z">>

IsDigit(c) == \E k \in 1..10 : DigitChars[k] = c

DigitVal(c) == (CHOOSE k \in 1..10 : DigitChars[k] = c) - 1

\* \s of the regular expressions: blank, tab, line feed
IsSpace(c) == c \in {" ", "\t", "\n"}

\* String.prototype.toLowerCase on one character
LowerChar(c) ==
    IF \E k \in 1..26 : UpperChars[k] = c
    THEN LowerChars[CHOOSE k \in 1..26 : UpperChars[k] = c]
    ELSE c

toLowerCase(str) == [k \in 1..Len(str) |-> LowerChar(str[k])]

toUpperCase(str) ==
    [k \in 1..Len(str) |->
        IF \E j \in 1..26 : LowerChars[j] = str[k]
        THEN UpperChars[CHOOSE j \in 1..26 : LowerChars[j] = str[k]]
        ELSE str[k]]

\* String.prototype.trim
RECURSIVE trimStart(_)
trimStart(str) ==
    IF str # <<>> /\ IsSpace(Head(str)) THEN trimStart(Tail(str)) ELSE str

RECURSIVE trimEnd(_)
trimEnd(str) ==
    IF str # <<>> /\ IsSpace(str[Len(str)])
    THEN trimEnd(SubSeq(str, 1, Len(str) - 1))
    ELSE str

trim(str) == trimEnd(trimStart(str))

\* str.replace(/\s+/g, ' '): every run of white space becomes one blank
RECURSIVE collapseSpaces(_)
collapseSpaces(str) ==
    IF str = <<>> THEN <<>>
    ELSE IF IsSpace(Head(str))
         THEN <<" ">> \o collapseSpaces(trimStart(str))
         ELSE <<Head(str)>> \o collapseSpaces(Tail(str))

\* parseInt(digits, 10) of a string of decimal digits
RECURSIVE parseInt(_)
parseInt(str) ==
    IF str = <<>> THEN 0
    ELSE parseInt(SubSeq(str, 1, Len(str) - 1)) * 10 + DigitVal(str[Len(str)])

\* the decimal digits of a natural number, and the same padded to a width
RECURSIVE Digits(_)
Digits(n) ==
    IF n < 10 THEN <<DigitChars[n + 1]>>
    ELSE Digits(n \div 10) \o <<DigitChars[(n % 10) + 1]>>

RECURSIVE Pad(_, _)
Pad(n, w) == IF Len(Digits(n)) >= w THEN Digits(n) ELSE <<"0">> \o Pad(n, w - 1)

\* str starts, at position k, with the literal lit (compared as given)
StartsAt(str, k, lit) ==
    /\ k >= 1
    /\ k + Len(lit) - 1 <= Len(str)
    /\ SubSeq(str, k, k + Len(lit) - 1) = lit

\* the same, ignoring case (the /i flag)
StartsAtI(str, k, lit) ==
    /\ k >= 1
    /\ k + Len(lit) - 1 <= Len(str)
    /\ \A i \in 1..Len(lit) : LowerChar(str[k + i - 1]) = LowerChar(lit[i])

\* first position at or after k that does not hold white space (\s*)
RECURSIVE SkipSpaces(_, _)
SkipSpaces(str, k) ==
    IF k <= Len(str) /\ IsSpace(str[k]) THEN SkipSpaces(str, k + 1) ELSE k

\* number of digits at position k, at most max (\d{1,max}, greedy)
RECURSIVE DigitRun(_, _, _)
DigitRun(str, k, max) ==
    IF max > 0 /\ k <= Len(str) /\ IsDigit(str[k])
    THEN 1 + DigitRun(str, k + 1, max - 1)
    ELSE 0

(***************************************************************************)
(* ECMAScript Date: calendar arithmetic in whole seconds                   *)
(***************************************************************************)
\* Day(t) and TimeWithinDay(t)
Day(t) == t \div 86400

TimeWithinDay(t) == t % 86400

DaysFromCivil(y, m, d) ==
    LET \* day number of the civil date y-m-d (m in 1..12)
        DaysOfEra(era, yoe, doy) ==
            era * 146097 + (yoe * 365 + yoe \div 4 - yoe \div 100 + doy) - 719468
        DaysOfYear(yy, doy) == DaysOfEra(yy \div 400, yy % 400, doy)
    IN  DaysOfYear(IF m <= 2 THEN y - 1 ELSE y,
                   (153 * (IF m > 2 THEN m - 3 ELSE m + 9) + 2) \div 5 + d - 1)

CivilFromDays(z) ==
    LET \* the civil date of a day number: [y, m (1..12), d]
        CivilOfMonth(y, doy, mp) ==
            [y |-> y + (IF mp < 10 THEN 0 ELSE 1),
             m |-> IF mp < 10 THEN mp + 3 ELSE mp - 9,
             d |-> doy - (153 * mp + 2) \div 5 + 1]
        CivilOfDayOfYear(y, doy) == CivilOfMonth(y, doy, (5 * doy + 2) \div 153)
        CivilOfYear(era, doe, yoe) ==
            CivilOfDayOfYear(yoe + era * 400, doe - (365 * yoe + yoe \div 4 - yoe \div 100))
        CivilOfEra(era, doe) ==
            CivilOfYear(era, doe,
                        (doe - doe \div 1460 + doe \div 36524 - doe \div 146096) \div 365)
        CivilOfShifted(zz) == CivilOfEra(zz \div 146097, zz % 146097)
    IN  CivilOfShifted(z + 719468)

YearFromTime(t) == CivilFromDays(Day(t)).y

\* MonthFromTime is 0-based, as in ECMAScript
MonthFromTime(t) == CivilFromDays(Day(t)).m - 1

DateFromTime(t) == CivilFromDays(Day(t)).d

HourFromTime(t) == TimeWithinDay(t) \div 3600

MinFromTime(t) == (TimeWithinDay(t) % 3600) \div 60

SecFromTime(t) == TimeWithinDay(t) % 60

\* 0 = Sunday
WeekDay(t) == (Day(t) + 4) % 7

\* MakeTime(hour, min, sec), MakeDay(year, month0, date), MakeDate(day, time):
\* out-of-range fields carry over, as in ECMAScript
MakeTime(hour, min, sec) == hour * 3600 + min * 60 + sec

MakeDay(year, month, date) ==
    DaysFromCivil(year + month \div 12, (month % 12) + 1, 1) + date - 1

MakeDate(day, time) == day * 86400 + time

(***************************************************************************)
(* The system time zone.  Two zones without daylight saving time and one   *)
(* with the United States rule (the second Sunday of March, 02:00, to the  *)
(* first Sunday of November, 02:00; before 2007 the first Sunday of April  *)
(* to the last Sunday of October).                                         *)
(***************************************************************************)
Zones == {"UTC", "Asia/Manila", "America/New_York"}

StdOffset(zone) ==
    CASE zone = "UTC" -> 0
      [] zone = "Asia/Manila" -> 8 * 3600
      [] zone = "America/New_York" -> -(5 * 3600)

DstOffset(zone) ==
    IF zone = "America/New_York" THEN -(4 * 3600) ELSE StdOffset(zone)

\* day number of the n-th Sunday (n >= 1) of month m of year y
NthSunday(y, m, n) ==
    LET \* day number of the first Sunday on or after a day, of the last on or before it
        SundayFrom(day) == day + ((7 - ((day + 4) % 7)) % 7)
    IN  SundayFrom(DaysFromCivil(y, m, 1)) + 7 * (n - 1)

\* day number of the last Sunday of October of year y
LastSundayOfOctober(y) ==
    LET SundayUpTo(day) == day - ((day + 4) % 7)
    IN  SundayUpTo(DaysFromCivil(y, 10, 31))

DstStart(y) ==
    NthSunday(y, IF y >= 2007 THEN 3 ELSE 4, IF y >= 2007 THEN 2 ELSE 1) * 86400
    + 7 * 3600

DstEnd(y) ==
    (IF y >= 2007 THEN NthSunday(y, 11, 1) ELSE LastSundayOfOctober(y)) * 86400
    + 6 * 3600

\* offset of the zone at the UTC instant t
OffsetAt(zone, t) ==
    LET \* offset of the zone at the UTC instant t, which falls in year y
        OffsetInYear(y) ==
            IF zone = "America/New_York" /\ DstStart(y) <= t /\ t < DstEnd(y)
            THEN DstOffset(zone)
            ELSE StdOffset(zone)
    IN  OffsetInYear(YearFromTime(t))

\* LocalTime(t) = t + LocalTZA(t, true)
LocalTime(t) == t + OffsetAt(tz, t)

\* UTC(t) = t - LocalTZA(t, false): a local time that occurs twice or not at
\* all is read with the offset in force before the transition
UTC(t) ==
    IF OffsetAt(tz, t - DstOffset(tz)) = DstOffset(tz)
    THEN t - DstOffset(tz)
    ELSE t - StdOffset(tz)

(***************************************************************************)
(* Date objects [s, ms] and their methods.  Each setter reads the local    *)
(* time t of the Date, replaces fields of it and converts back.            *)
(***************************************************************************)
getFullYear(d) == YearFromTime(LocalTime(d.s))

getMonth(d) == MonthFromTime(LocalTime(d.s))

getDate(d) == DateFromTime(LocalTime(d.s))

getHours(d) == HourFromTime(LocalTime(d.s))

getMinutes(d) == MinFromTime(LocalTime(d.s))

getSeconds(d) == SecFromTime(LocalTime(d.s))

\* the Date of a local time
FromLocal(t, ms) == [s |-> UTC(t), ms |-> ms]

setMinutes(d, min) ==
    LET LocalWithMinutes(t) ==
            MakeDate(Day(t), MakeTime(HourFromTime(t), min, SecFromTime(t)))
    IN  FromLocal(LocalWithMinutes(LocalTime(d.s)), d.ms)

setHours(d, hour) ==
    LET LocalWithHours(t) ==
            MakeDate(Day(t), MakeTime(hour, MinFromTime(t), SecFromTime(t)))
    IN  FromLocal(LocalWithHours(LocalTime(d.s)), d.ms)

\* setHours(hour, min, sec, ms)
setHours4(d, hour, min, sec, ms) ==
    FromLocal(MakeDate(Day(LocalTime(d.s)), MakeTime(hour, min, sec)), ms)

setDate(d, date) ==
    LET LocalWithDate(t, civil) ==
            MakeDate(MakeDay(civil.y, civil.m - 1, date), TimeWithinDay(t))
        LocalWithDateOf(t) == LocalWithDate(t, CivilFromDays(Day(t)))
    IN  FromLocal(LocalWithDateOf(LocalTime(d.s)), d.ms)

\* setMonth(month, date)
setMonth2(d, month, date) ==
    LET LocalWithMonth(t) ==
            MakeDate(MakeDay(YearFromTime(t), month, date), TimeWithinDay(t))
    IN  FromLocal(LocalWithMonth(LocalTime(d.s)), d.ms)

toISOString(d) ==
    LET \* Date.prototype.toISOString: "YYYY-MM-DDTHH:mm:ss.sssZ", in UTC
        IsoText(c) ==
            Pad(c.y, 4) \o <<"-">> \o Pad(c.m, 2) \o <<"-">> \o Pad(c.d, 2) \o <<"T">>
            \o Pad(HourFromTime(d.s), 2) \o <<":">> \o Pad(MinFromTime(d.s), 2) \o <<":">>
            \o Pad(SecFromTime(d.s), 2) \o <<".">> \o Pad(d.ms, 3) \o <<"Z">>
    IN  IsoText(CivilFromDays(Day(d.s)))


(***************************************************************************)
(* new Date(string) / Date.parse(string), as V8 (Node, Chromium) parses:   *)
(*   - the ISO format YYYY-MM-DDTHH:mm:ss[.sss](Z|+HH:MM|-HH:MM);          *)
(*   - the legacy form "<MonthName> <day>", which V8 reads as that day of  *)
(*     the year 2001 at local midnight;                                    *)
(*   - any other string of this model is not a date (NaN): V8's legacy     *)
(*     parser rejects a word it does not know once a number has been read. *)
(***************************************************************************)
monthNames ==
    << <<"J", "a", "n", "u", "a", "r", "y">>,
       <<"F", "e", "b", "r", "u", "a", "r", "y">>,
       <<"M", "a", "r", "c", "h">>,
       <<"A", "p", "r", "i", "l">>,
       <<"M", "a", "y">>,
       <<"J", "u", "n", "e">>,
       <<"J", "u", "l", "y">>,
       <<"A", "u", "g", "u", "s", "t">>,
       <<"S", "e", "p", "t", "e", "m", "b", "e", "r">>,
       <<"O", "c", "t", "o", "b", "e", "r">>,
       <<"N", "o", "v", "e", "m", "b", "e", "r">>,
       <<"D", "e", "c", "e", "m", "b", "e", "r">> >>

AllDigits(str, a, b) == b <= Len(str) /\ \A k \in a..b : IsDigit(str[k])

Num(str, a, b) == parseInt(SubSeq(str, a, b))

DaysInMonth(y, m) == DaysFromCivil(y + m \div 12, (m % 12) + 1, 1) - DaysFromCivil(y, m, 1)

IsoShape(str) ==
    /\ Len(str) >= 20
    /\ AllDigits(str, 1, 4) /\ str[5] = "-" /\ AllDigits(str, 6, 7) /\ str[8] = "-"
    /\ AllDigits(str, 9, 10) /\ str[11] = "T" /\ AllDigits(str, 12, 13)
    /\ str[14] = ":" /\ AllDigits(str, 15, 16) /\ str[17] = ":" /\ AllDigits(str, 18, 19)
    /\ LET z == IF str[20] = "." THEN 24 ELSE 20
       IN  /\ (str[20] = "." => AllDigits(str, 21, 23))
           /\ Len(str) >= z
           /\ \/ str[z] = "Z" /\ Len(str) = z
              \/ /\ str[z] \in {"+", "-"} /\ Len(str) = z + 5
                 /\ AllDigits(str, z + 1, z + 2) /\ str[z + 3] = ":"
                 /\ AllDigits(str, z + 4, z + 5)
    /\ Num(str, 6, 7) \in 1..12
    /\ Num(str, 9, 10) \in 1..DaysInMonth(Num(str, 1, 4), Num(str, 6, 7))
    /\ Num(str, 12, 13) <= 23 /\ Num(str, 15, 16) <= 59 /\ Num(str, 18, 19) <= 59

IsoValue(str) ==
    LET z   == IF str[20] = "." THEN 24 ELSE 20
        off == IF str[z] = "Z" THEN 0
               ELSE (IF str[z] = "-" THEN -1 ELSE 1)
                    * (Num(str, z + 1, z + 2) * 3600 + Num(str, z + 4, z + 5) * 60)
    IN  [s  |-> MakeDate(DaysFromCivil(Num(str, 1, 4), Num(str, 6, 7), Num(str, 9, 10)),
                         MakeTime(Num(str, 12, 13), Num(str, 15, 16), Num(str, 18, 19)))
                - off,
         ms |-> IF str[20] = "." THEN Num(str, 21, 23) ELSE 0]

\* index (1..12) of the month name the string holds at position k, or 0
MonthAt(str, k) ==
    IF \E i \in 1..12 : StartsAtI(str, k, monthNames[i])
    THEN CHOOSE i \in 1..12 : StartsAtI(str, k, monthNames[i])
    ELSE 0

\* the 12-hour conversion of V8's legacy parser: 12 AM is 0, PM adds 12 below 12
LegacyHour(h, pm) == IF pm THEN (IF h = 12 THEN 12 ELSE h + 12) ELSE (IF h = 12 THEN 0 ELSE h)

DateParse(str) ==
    LET \* The legacy forms, read in local time, one part after the other:
        \*   "<MonthName> <day>"                                 (the year is 2001)
        \*   "<MonthName> <day>[,] <year>[ <h>:<mm> <AM|PM>]"
        \* Each step yields [local |-> the local time] or NoMatch.
        LegacyClockEnd(day, h, m, ap) ==
            IF /\ (StartsAtI(str, ap, <<"a", "m">>) \/ StartsAtI(str, ap, <<"p", "m">>))
               /\ ap + 1 = Len(str)
            THEN [local |-> MakeDate(day, MakeTime(LegacyHour(h, StartsAtI(str, ap, <<"p", "m">>)),
                                                   m, 0))]
            ELSE NoMatch
        LegacyClock(day, hp, hr) ==
            IF /\ hr >= 1 /\ hp + hr + 2 <= Len(str)
               /\ str[hp + hr] = ":" /\ DigitRun(str, hp + hr + 1, 2) = 2
               /\ Num(str, hp, hp + hr - 1) \in 1..12
               /\ Num(str, hp + hr + 1, hp + hr + 2) <= 59
            THEN LegacyClockEnd(day, Num(str, hp, hp + hr - 1),
                                Num(str, hp + hr + 1, hp + hr + 2), SkipSpaces(str, hp + hr + 3))
            ELSE NoMatch
        LegacyTime(day, e, hp) ==
            IF hp > e THEN LegacyClock(day, hp, DigitRun(str, hp, 2)) ELSE NoMatch
        LegacyAfterYear(day, e) ==
            IF e - 1 = Len(str) THEN [local |-> MakeDate(day, 0)]
            ELSE LegacyTime(day, e, SkipSpaces(str, e))
        LegacyYear(mi, date, c, y) ==
            IF y > c /\ DigitRun(str, y, 5) = 4
            THEN LegacyAfterYear(MakeDay(Num(str, y, y + 3), mi - 1, date), y + 4)
            ELSE NoMatch
        LegacyAfterDay(mi, date, c) ==
            IF c - 1 = Len(str) THEN [local |-> MakeDate(MakeDay(2001, mi - 1, date), 0)]
            ELSE LegacyYear(mi, date, c, SkipSpaces(str, IF str[c] = "," THEN c + 1 ELSE c))
        LegacyDay(mi, q, r) ==
            IF r >= 1 /\ Num(str, q, q + r - 1) \in 1..31
            THEN LegacyAfterDay(mi, Num(str, q, q + r - 1), q + r)
            ELSE NoMatch
        LegacySpaced(mi, p, q) ==
            IF q > p THEN LegacyDay(mi, q, DigitRun(str, q, 2)) ELSE NoMatch
        LegacyMonth(mi) ==
            IF mi # 0
            THEN LegacySpaced(mi, 1 + Len(monthNames[mi]),
                              SkipSpaces(str, 1 + Len(monthNames[mi])))
            ELSE NoMatch
        LegacyLocal == LegacyMonth(MonthAt(str, 1))
        \* the Date of a legacy form, or InvalidDate
        LegacyDate(l) == IF l = NoMatch THEN InvalidDate ELSE FromLocal(l.local, 0)
    IN  IF IsoShape(str) THEN IsoValue(str) ELSE LegacyDate(LegacyLocal)

(***************************************************************************)
(* utils/postTime.js: toISO, normalizeToISO, parseLooseDate                *)
(***************************************************************************)
toISO(d) == toISOString(d)

normalizeToISO(v) ==
    LET \* if (!isFinite(d.getTime())) return null; return d.toISOString()
        NormalizedDate(d) == IF ~isFinite(d) THEN NULL ELSE toISOString(d)
    IN  NormalizedDate(DateParse(v))

\* /(just\s*now)/i.test(cleaned)
JustNowAt(str, k) ==
    /\ StartsAtI(str, k, <<"j", "u", "s", "t">>)
    /\ StartsAtI(str, SkipSpaces(str, k + 4), <<"n", "o", "w">>)

JustNowTest(str) == \E k \in 1..Len(str) : str[k] \in {"j", "J"} /\ JustNowAt(str, k)

RelAt(str, k) ==
    LET \* lower.match(/(\d{1,3})\s*(m|mins?|minutes?|h|hrs?|hours?|d|days?)/) at k:
        \* the digits are taken greedily and every alternative starts with m, h or d
        RelUnitAt(j) == j <= Len(str) /\ str[j] \in {"m", "h", "d"}
        RelDigits(r) == r >= 1 /\ RelUnitAt(SkipSpaces(str, k + r))
    IN  RelDigits(DigitRun(str, k, 3))

\* the leftmost position at or after k where the expression matches, or 0
RECURSIVE RelFrom(_, _)
RelFrom(str, k) ==
    IF k > Len(str) THEN 0
    ELSE IF IsDigit(str[k]) /\ RelAt(str, k) THEN k
    ELSE RelFrom(str, k + 1)

RelMatch(str) ==
    LET \* the leftmost match: [n |-> parseInt(rel[1], 10), unit |-> rel[2][0]], or NoMatch
        RelGroups(k, r) ==
            [n |-> Num(str, k, k + r - 1), unit |-> str[SkipSpaces(str, k + r)]]
        RelMatchAt(k) ==
            IF k = 0 THEN NoMatch ELSE RelGroups(k, DigitRun(str, k, 3))
    IN  RelMatchAt(RelFrom(str, 1))

AtTime(str, p) ==
    LET \* \s+at\s+(\d{1,2}):(\d{2})\s*(AM|PM) with /i, starting at position p, one
        \* part after the other: [h, m, ampm] or NoMatch
        AtAmPm(h, m, e) ==
            IF StartsAtI(str, e, <<"a", "m">>) \/ StartsAtI(str, e, <<"p", "m">>)
            THEN [h |-> h, m |-> m, ampm |-> toUpperCase(SubSeq(str, e, e + 1))]
            ELSE NoMatch
        AtDigits(b, r) ==
            IF /\ r >= 1 /\ b + r <= Len(str) /\ str[b + r] = ":"
               /\ DigitRun(str, b + r + 1, 2) = 2
            THEN AtAmPm(Num(str, b, b + r - 1), Num(str, b + r + 1, b + r + 2),
                        SkipSpaces(str, b + r + 3))
            ELSE NoMatch
        AtHour(a, b) ==
            IF b > a + 2 THEN AtDigits(b, DigitRun(str, b, 2)) ELSE NoMatch
        AtWord(a) ==
            IF a > p /\ StartsAtI(str, a, <<"a", "t">>)
            THEN AtHour(a, SkipSpaces(str, a + 2))
            ELSE NoMatch
    IN  AtWord(SkipSpaces(str, p))

\* cleaned.match(/Yesterday\s+at\s+(\d{1,2}):(\d{2})\s*(AM|PM)/i) at k
YesterdayAt(str, k) ==
    IF StartsAtI(str, k, <<"y", "e", "s", "t", "e", "r", "d", "a", "y">>)
    THEN AtTime(str, k + 9)
    ELSE NoMatch

RECURSIVE YesterdayFrom(_, _)
YesterdayFrom(str, k) ==
    LET \* the leftmost match at or after k
        YesterdayElse(m) == IF m # NoMatch THEN m ELSE YesterdayFrom(str, k + 1)
    IN  IF k > Len(str) THEN NoMatch ELSE YesterdayElse(YesterdayAt(str, k))

YesterdayMatch(str) == YesterdayFrom(str, 1)

MonthDayAt(str, k) ==
    LET \* cleaned.match(/(January|...|December)\s+(\d{1,2})\s+at\s+(\d{1,2}):(\d{2})\s*(AM|PM)/i)
        \* at k: [month (0-based index in monthNames), day, h, m, ampm] or NoMatch
        MonthDayTime(mi, day, t) ==
            IF t # NoMatch
            THEN [month |-> mi - 1, day |-> day, h |-> t.h, m |-> t.m, ampm |-> t.ampm]
            ELSE NoMatch
        MonthDayRun(mi, q, r) ==
            IF r >= 1 THEN MonthDayTime(mi, Num(str, q, q + r - 1), AtTime(str, q + r))
            ELSE NoMatch
        MonthDayDigits(mi, p, q) ==
            IF q > p THEN MonthDayRun(mi, q, DigitRun(str, q, 2)) ELSE NoMatch
        MonthDayName(mi) ==
            IF mi # 0
            THEN MonthDayDigits(mi, k + Len(monthNames[mi]),
                                SkipSpaces(str, k + Len(monthNames[mi])))
            ELSE NoMatch
    IN  MonthDayName(MonthAt(str, k))

RECURSIVE MonthDayFrom(_, _)
MonthDayFrom(str, k) ==
    LET MonthDayElse(m) == IF m # NoMatch THEN m ELSE MonthDayFrom(str, k + 1)
    IN  IF k > Len(str) THEN NoMatch ELSE MonthDayElse(MonthDayAt(str, k))

MonthDayMatch(str) == MonthDayFrom(str, 1)

\* a 12-hour conversion that forgets that 12 AM is hour 0
Hour24NoMidnight(h, ampm) ==
    IF ampm = <<"P", "M">> /\ h # 12 THEN h + 12 ELSE h

\* the 12-hour conversion both rules share
Hour24(h, ampm) ==
    IF ampm = <<"P", "M">> /\ h # 12 THEN h + 12
    ELSE IF ampm = <<"A", "M">> /\ h = 12 THEN 0
    ELSE h

\* the short relative rule: now moved back n units, through the local fields
RelativeDate(now, rel) ==
    CASE rel.unit = "m" -> setMinutes(now, getMinutes(now) - rel.n)
      [] rel.unit = "h" -> setHours(now, getHours(now) - rel.n)
      [] rel.unit = "d" -> setDate(now, getDate(now) - rel.n)

YesterdayDate(now, y1) ==
    setHours4(setDate(now, getDate(now) - 1), Hour24(y1.h, y1.ampm), y1.m, 0, 0)

MonthDayDate(now, md) ==
    setHours4(setMonth2(now, md.month, md.day), Hour24(md.h, md.ampm), md.m, 0, 0)

\* parseLooseDate(text, { now }): an ISO string, or NULL
parseLooseDate(text, now) ==
    LET \* The rules of parseLooseDate in their order, each on the outcome of its
        \* match: the Date a rule returns through toISO, or InvalidDate when the
        \* fallback new Date(cleaned) is not a date.
        LooseMonthDay(cleaned, md) ==
            IF md # NoMatch THEN MonthDayDate(now, md) ELSE DateParse(cleaned)
        LooseYesterday(cleaned, y1) ==
            IF y1 # NoMatch THEN YesterdayDate(now, y1)
            ELSE LooseMonthDay(cleaned, MonthDayMatch(cleaned))
        LooseRel(cleaned, rel) ==
            IF rel # NoMatch THEN RelativeDate(now, rel)
            ELSE LooseYesterday(cleaned, YesterdayMatch(cleaned))
        LooseDate(cleaned) ==
            IF JustNowTest(cleaned) THEN now
            ELSE LooseRel(cleaned, RelMatch(toLowerCase(cleaned)))
        \* return toISO(dt), or return null at the end
        LooseISO(dt) == IF isFinite(dt) THEN toISO(dt) ELSE NULL
    IN  IF text = NULL THEN NULL ELSE LooseISO(LooseDate(trim(text)))


(***************************************************************************)
(* The parser's test entry, _test__relativeTo(s, now), applied to texts of *)
(* the forms Facebook renders.                                             *)
(***************************************************************************)
MaxSmallN == 3

RelNs == (1..MaxSmallN) \cup {23, 24, 59, 60, 61, 100, 365, 999}

RelInputs ==
    [form : {"rel"}, n : RelNs, unit : {"m", "h", "d"}, space : BOOLEAN]

ClockTimes ==
    [h : {1, 2, 3, 11, 12}, m : {0, 34, 45}, ampm : {<<"A", "M">>, <<"P", "M">>}]

MonthsTried == {1, 2, 3, 9, 11, 12}

MonthDayTimes ==
    { [h |-> 12, m |-> 0, ampm |-> <<"A", "M">>], [h |-> 12, m |-> 5, ampm |-> <<"P", "M">>],
      [h |-> 2, m |-> 34, ampm |-> <<"P", "M">>], [h |-> 2, m |-> 34, ampm |-> <<"A", "M">>],
      [h |-> 11, m |-> 45, ampm |-> <<"A", "M">>], [h |-> 1, m |-> 0, ampm |-> <<"P", "M">>] }

YesterdayInputs == [form : {"yesterday"}, time : ClockTimes]

MonthDayInputs ==
    [form : {"monthday"}, month : MonthsTried, day : {1, 9, 13, 31}, timed : {TRUE},
     time : MonthDayTimes]
    \cup [form : {"monthday"}, month : MonthsTried, day : {1, 9, 13, 31},
          timed : {FALSE}, time : {[h |-> 12, m |-> 0, ampm |-> <<"A", "M">>]}]

OtherInputs == {[form |-> "justnow"], [form |-> "junk"], [form |-> "empty"]}

ParserInputs == RelInputs \cup YesterdayInputs \cup MonthDayInputs \cup OtherInputs

\* "H:MM AM"
TimeText(time) ==
    Digits(time.h) \o <<":">> \o Pad(time.m, 2) \o <<" ">> \o time.ampm

\* the text an input stands for
Render(in) ==
    CASE in.form = "rel" ->
             Digits(in.n) \o (IF in.space THEN <<" ">> ELSE <<>>) \o <<in.unit>>
      [] in.form = "yesterday" ->
             <<"Y", "e", "s", "t", "e", "r", "d", "a", "y", " ", "a", "t", " ">>
             \o TimeText(in.time)
      [] in.form = "monthday" ->
             monthNames[in.month] \o <<" ">> \o Digits(in.day)
             \o (IF in.timed THEN <<" ", "a", "t", " ">> \o TimeText(in.time) ELSE <<>>)
      [] in.form = "justnow" -> <<"J", "u", "s", "t", " ", "n", "o", "w">>
      [] in.form = "junk" -> <<"L", "i", "k", "e">>
      [] in.form = "empty" -> <<>>

\* reference clocks: the smoke test's (2025-09-13T12:00:00+08:00), instants
\* around the 2025 daylight-saving changes of New York, around the turn of the
\* year, and after a leap day
TestClocks ==
    { [s |-> 1757736000, ms |-> 0],      \* 2025-09-13T04:00:00.000Z
      [s |-> 1741505415, ms |-> 250],    \* 2025-03-09T07:30:15.250Z
      [s |-> 1741608000, ms |-> 0],      \* 2025-03-10T12:00:00.000Z
      [s |-> 1762065000, ms |-> 0],      \* 2025-11-02T06:30:00.000Z
      [s |-> 1735690200, ms |-> 7],      \* 2025-01-01T00:10:00.007Z
      [s |-> 1709294400, ms |-> 0],      \* 2024-03-01T12:00:00.000Z
      [s |-> 1767225599, ms |-> 999] }   \* 2025-12-31T23:59:59.999Z

(***************************************************************************)
(* Attribute values and texts found on the pages                           *)
(***************************************************************************)
GoodDatetime ==
    <<"2", "0", "2", "5", "-", "0", "9", "-", "1", "0", "T", "0", "8", ":", "0", "0",
      ":", "0", "0", ".", "0", "0", "0", "Z">>

GoodTitle ==
    <<"Y", "e", "s", "t", "e", "r", "d", "a", "y", " ", "a", "t", " ", "3", ":", "4",
      "5", " ", "P", "M">>

GoodAria == <<"2", " ", "h">>

GoodText ==
    <<" ", "S", "e", "p", "t", "e", "m", "b", "e", "r", " ", "1", "3", " ", "a", "t",
      " ", "2", ":", "3", "4", " ", "P", "M", "\n">>

Junk == <<"L", "i", "k", "e">>

(***************************************************************************)
(* extractPostDateISO(page)                                                *)
(***************************************************************************)
Cap == 50

NullResult == [null |-> TRUE]

\* the candidates one element contributes, in the order the loop pushes them
ElementCandidates(el) ==
    (IF el.datetime # NULL THEN <<[kind |-> "datetime", value |-> el.datetime]>> ELSE <<>>)
    \o (IF el.title # NULL THEN <<[kind |-> "title", value |-> el.title]>> ELSE <<>>)
    \o (IF el.aria # NULL THEN <<[kind |-> "aria", value |-> el.aria]>> ELSE <<>>)
    \o (IF trim(el.text) # NULL THEN <<[kind |-> "text", value |-> trim(el.text)]>>
        ELSE <<>>)

RECURSIVE Candidates(_)
Candidates(els) ==
    IF els = <<>> THEN <<>>
    ELSE ElementCandidates(Head(els)) \o Candidates(Tail(els))

\* a harvest that returns every candidate of the page
sliceAll(arr, n) == arr

\* Array.prototype.slice(0, n)
slice(arr, n) == SubSeq(arr, 1, IF Len(arr) < n THEN Len(arr) ELSE n)

\* the page.evaluate callback of the harvest
Harvested(els) == slice(Candidates(els), Cap)

\* a text tier that looks at the attributes only
IsAttributeKind(kind) == kind = "title" \/ kind = "aria"

IsTextKind(kind) == kind = "title" \/ kind = "aria" \/ kind = "text"

\* the steps of the OCR block, each of which may throw
OcrSteps ==
    <<"locateHeaderBox", "screenshot", "import", "createWorker", "loadLanguage",
      "initialize", "recognize", "terminate">>

ResolverIdle ==
    /\ pc = "idle"
    /\ found = <<>>
    /\ idx = 1
    /\ ocrStep = 1
    /\ worker = "none"
    /\ ocrText = <<>>
    /\ result = NullResult
    /\ threw = FALSE
    /\ calls = <<>>
    /\ startClock = clock

\* a resolver that starts with the text candidates
HarvestTextFirst ==
    /\ entry = "dates" /\ pc = "idle"
    /\ found' = Harvested(dom)
    /\ pc' = "text"
    /\ idx' = 1
    /\ startClock' = clock
    /\ UNCHANGED <<batchVars, entry, tz, clock, parserVars, detailsVars, dom, ocrStep, worker, ocrText, result, threw,
                   calls>>

\* const found = await page.evaluate(...)
Harvest ==
    /\ entry = "dates" /\ pc = "idle"
    /\ found' = Harvested(dom)
    /\ pc' = "datetime"
    /\ idx' = 1
    /\ startClock' = clock
    /\ UNCHANGED <<batchVars, entry, tz, clock, parserVars, detailsVars, dom, ocrStep, worker, ocrText, result, threw,
                   calls>>

\* page.evaluate rejects (the page was closed, the navigation failed): the
\* call is outside any try block, and the error leaves extractPostDateISO
HarvestThrows ==
    /\ entry = "dates" /\ pc = "idle"
    /\ pc' = "threw"
    /\ threw' = TRUE
    /\ startClock' = clock
    /\ UNCHANGED <<batchVars, entry, tz, clock, parserVars, detailsVars, dom, found, idx, ocrStep,
                   worker, ocrText, result, calls>>

\* the first loop, on a candidate of another kind
DatetimeSkip ==
    /\ pc = "datetime" /\ idx <= Len(found)
    /\ found[idx].kind # "datetime"
    /\ idx' = idx + 1
    /\ UNCHANGED <<batchVars, entry, tz, clock, parserVars, detailsVars, dom, pc, found, ocrStep, worker, ocrText,
                   result, threw, calls, startClock>>

\* the first loop, on a datetime candidate
DatetimeTry ==
    /\ pc = "datetime" /\ idx <= Len(found)
    /\ found[idx].kind = "datetime"
    /\ LET iso == normalizeToISO(found[idx].value)
       IN  /\ calls' = Append(calls, [fn |-> "normalizeToISO", idx |-> idx, now |-> clock])
           /\ IF iso # NULL
              THEN /\ result' = [iso |-> iso, source |-> "dom_datetime"]
                   /\ pc' = "done"
                   /\ idx' = idx
              ELSE /\ idx' = idx + 1
                   /\ UNCHANGED <<result, pc>>
    /\ UNCHANGED <<batchVars, entry, tz, clock, parserVars, detailsVars, dom, found, ocrStep, worker, ocrText, threw,
                   startClock>>

\* the first loop is over: on to the text candidates
DatetimeEnd ==
    /\ pc = "datetime" /\ idx > Len(found)
    /\ pc' = "text"
    /\ idx' = 1
    /\ UNCHANGED <<batchVars, entry, tz, clock, parserVars, detailsVars, dom, found, ocrStep, worker, ocrText, result,
                   threw, calls, startClock>>

\* the second loop, on a datetime candidate
TextSkip ==
    /\ pc = "text" /\ idx <= Len(found)
    /\ ~IsTextKind(found[idx].kind)
    /\ idx' = idx + 1
    /\ UNCHANGED <<batchVars, entry, tz, clock, parserVars, detailsVars, dom, pc, found, ocrStep, worker, ocrText,
                   result, threw, calls, startClock>>

\* a second loop that records a success and goes on to the next candidate
TextTryGoesOn ==
    /\ pc = "text" /\ idx <= Len(found)
    /\ IsTextKind(found[idx].kind)
    /\ calls' = Append(calls, [fn |-> "parseLooseDate", idx |-> idx, now |-> clock])
    /\ idx' = idx + 1
    /\ UNCHANGED <<result, pc>>
    /\ UNCHANGED <<batchVars, entry, tz, clock, parserVars, detailsVars, dom, found, ocrStep, worker, ocrText, threw,
                   startClock>>

\* the second loop, on a title, aria or text candidate: parseLooseDate(c.value)
\* reads the wall clock itself
TextTry ==
    /\ pc = "text" /\ idx <= Len(found)
    /\ IsTextKind(found[idx].kind)
    /\ LET iso == parseLooseDate(found[idx].value, clock)
       IN  /\ calls' = Append(calls, [fn |-> "parseLooseDate", idx |-> idx, now |-> clock])
           /\ IF iso # NULL
              THEN /\ result' = [iso |-> iso, source |-> "dom_" \o found[idx].kind]
                   /\ pc' = "done"
                   /\ idx' = idx
              ELSE /\ idx' = idx + 1
                   /\ UNCHANGED <<result, pc>>
    /\ UNCHANGED <<batchVars, entry, tz, clock, parserVars, detailsVars, dom, found, ocrStep, worker, ocrText, threw,
                   startClock>>

\* the second loop is over: the OCR block is entered
TextEnd ==
    /\ pc = "text" /\ idx > Len(found)
    /\ pc' = "ocr"
    /\ ocrStep' = 1
    /\ UNCHANGED <<batchVars, entry, tz, clock, parserVars, detailsVars, dom, found, idx, worker, ocrText, result,
                   threw, calls, startClock>>

\* what the recognition may read off the screenshot
OcrTexts ==
    { <<>>,
      <<"L", "i", "k", "e", "\n", "S", "h", "a", "r", "e">>,
      <<"P", "a", "g", "e", "\n", " ", "2", " ", "h", " ", "\n">> }

\* one awaited step of the OCR block returns
OcrStepDone ==
    /\ pc = "ocr" /\ ocrStep <= Len(OcrSteps)
    /\ worker' = CASE OcrSteps[ocrStep] = "createWorker" -> "live"
                   [] OcrSteps[ocrStep] = "terminate" -> "terminated"
                   [] OTHER -> worker
    /\ IF OcrSteps[ocrStep] = "recognize"
       THEN /\ ocrText' \in OcrTexts
            /\ calls' = Append(calls, [fn |-> "recognize", idx |-> 0, now |-> clock])
       ELSE UNCHANGED <<ocrText, calls>>
    /\ ocrStep' = ocrStep + 1
    /\ UNCHANGED <<batchVars, entry, tz, clock, parserVars, detailsVars, dom, pc, found, idx, result, threw, startClock>>

\* an OCR block without its catch: the error of a step leaves the resolver
OcrStepRethrows ==
    /\ pc = "ocr" /\ ocrStep <= Len(OcrSteps)
    /\ IF OcrSteps[ocrStep] = "recognize"
       THEN calls' = Append(calls, [fn |-> "recognize", idx |-> 0, now |-> clock])
       ELSE UNCHANGED calls
    /\ threw' = TRUE
    /\ pc' = "threw"
    /\ UNCHANGED <<batchVars, entry, tz, clock, parserVars, detailsVars, dom, found, idx, ocrStep, worker, ocrText,
                   result, startClock>>

\* one awaited step of the OCR block throws: catch (_) { /* ignore */ }, return null
OcrStepThrows ==
    /\ pc = "ocr" /\ ocrStep <= Len(OcrSteps)
    /\ IF OcrSteps[ocrStep] = "recognize"
       THEN calls' = Append(calls, [fn |-> "recognize", idx |-> 0, now |-> clock])
       ELSE UNCHANGED calls
    /\ result' = NullResult
    /\ pc' = "done"
    /\ UNCHANGED <<batchVars, entry, tz, clock, parserVars, detailsVars, dom, found, idx, ocrStep, worker, ocrText,
                   threw, startClock>>

\* the recognized text, cleaned and parsed
OcrParse ==
    /\ pc = "ocr" /\ ocrStep > Len(OcrSteps)
    /\ LET text == trim(collapseSpaces(ocrText))
           iso  == parseLooseDate(text, clock)
       IN  /\ calls' = Append(calls, [fn |-> "parseLooseDate", idx |-> 0, now |-> clock])
           /\ result' = IF iso # NULL THEN [iso |-> iso, source |-> "ocr"] ELSE NullResult
    /\ pc' = "done"
    /\ UNCHANGED <<batchVars, entry, tz, clock, parserVars, detailsVars, dom, found, idx, ocrStep, worker, ocrText,
                   threw, startClock>>

\* time passes while the resolver awaits the page or the OCR
MaxTicks == 1

TickSeconds == 90

Tick ==
    /\ \/ pc = "datetime" /\ idx = 1
       \/ pc = "ocr"
    /\ clock.s < 1757736000 + MaxTicks * TickSeconds
    /\ clock' = [clock EXCEPT !.s = @ + TickSeconds]
    /\ UNCHANGED <<batchVars, entry, tz, parserVars, resolverVars, detailsVars>>


(***************************************************************************)
(* main.js: extractPostDetails(page, post_url), the timestamp part         *)
(***************************************************************************)
\* parseInt(str, 10): the leading digits, or NaN (here -1) without any
jsParseInt(str) ==
    LET r == DigitRun(str, 1, Len(str))
    IN  IF r = 0 THEN -1 ELSE Num(str, 1, r)

isNaN(n) == n = -1

\* raw.replace(/^Updated\s+/i, '')
stripUpdated(raw) ==
    IF StartsAtI(raw, 1, <<"u", "p", "d", "a", "t", "e", "d">>)
       /\ SkipSpaces(raw, 8) > 8
    THEN SubSeq(raw, SkipSpaces(raw, 8), Len(raw))
    ELSE raw

AnchoredRel(str, units) ==
    LET \* relTxt.match(/^(\d+)\s*<unit>$/i) for one of the unit spellings: the number or -1
        AnchoredUnit(r) ==
            IF r >= 1 /\ toLowerCase(SubSeq(str, SkipSpaces(str, r + 1), Len(str))) \in units
            THEN Num(str, 1, r)
            ELSE -1
    IN  AnchoredUnit(DigitRun(str, 1, Len(str)))

MinuteUnits == {<<"m">>, <<"m", "i", "n">>}

HourUnits == {<<"h">>, <<"h", "o", "u", "r">>, <<"h", "o", "u", "r", "s">>}

DayUnits == {<<"d">>, <<"d", "a", "y">>, <<"d", "a", "y", "s">>}

\* now - seconds * 1000, on a Date
minusSeconds(d, seconds) == [s |-> d.s - seconds, ms |-> d.ms]

ExplicitRelative(relTxt, now) ==
    LET \* the explicit relative patterns in their order, each on the number its
        \* expression matched (-1 without a match): the Date, or InvalidDate for
        \* ms === null
        RelativeDays(n) ==
            IF n # -1 THEN minusSeconds(now, n * 86400)
            ELSE IF toLowerCase(relTxt) = <<"y", "e", "s", "t", "e", "r", "d", "a", "y">>
                 THEN minusSeconds(now, 86400)
            ELSE InvalidDate
        RelativeHours(n) ==
            IF n # -1 THEN minusSeconds(now, n * 3600)
            ELSE RelativeDays(AnchoredRel(relTxt, DayUnits))
        RelativeMinutes(n) ==
            IF n # -1 THEN minusSeconds(now, n * 60)
            ELSE RelativeHours(AnchoredRel(relTxt, HourUnits))
    IN  IF toLowerCase(relTxt) = <<"j", "u", "s", "t", " ", "n", "o", "w">> THEN now
        ELSE RelativeMinutes(AnchoredRel(relTxt, MinuteUnits))

IsLetter(c) == \E k \in 1..26 : UpperChars[k] = c \/ LowerChars[k] = c

RECURSIVE LetterRun(_, _)
LetterRun(str, k) ==
    IF k <= Len(str) /\ IsLetter(str[k]) THEN 1 + LetterRun(str, k + 1) ELSE 0

MdHeadAt(str, k) ==
    LET \* /([A-Za-z]+)\s+(\d{1,2})(?:,\s*(\d{4}))?(?:\s*at\s*(\d{1,2}:\d{2}\s*(?:AM|PM)))?/i
        \* matches at k
        MdSpaced(e, q) == e > k /\ q > e /\ DigitRun(str, q, 2) >= 1
        MdLetters(e) == MdSpaced(e, SkipSpaces(str, e))
    IN  MdLetters(k + LetterRun(str, k))

RECURSIVE MdFrom(_, _)
MdFrom(str, k) ==
    IF k > Len(str) THEN 0
    ELSE IF MdHeadAt(str, k) THEN k
    ELSE MdFrom(str, k + 1)

\* the leftmost match, or NoMatch
mdMatch(str) ==
    LET \* the optional time group from position a: its text, or NULL when absent
        MdClock(h, hr, ap) ==
            IF /\ hr >= 1
               /\ h + hr <= Len(str) /\ str[h + hr] = ":"
               /\ DigitRun(str, h + hr + 1, 2) = 2
               /\ (StartsAtI(str, ap, <<"a", "m">>) \/ StartsAtI(str, ap, <<"p", "m">>))
            THEN SubSeq(str, h, ap + 1)
            ELSE NULL
        MdHour(h, hr) == MdClock(h, hr, SkipSpaces(str, h + hr + 3))
        MdHourAt(h) == MdHour(h, DigitRun(str, h, 2))
        MdTime(a) ==
            IF StartsAtI(str, a, <<"a", "t">>) THEN MdHourAt(SkipSpaces(str, a + 2))
            ELSE NULL
        \* [mon, day, year (NULL when absent), time (NULL when absent)]
        MdGroups(k, e, q, c, y, hasYear) ==
            [mon  |-> SubSeq(str, k, e - 1),
             day  |-> SubSeq(str, q, c - 1),
             year |-> IF hasYear THEN SubSeq(str, y, y + 3) ELSE NULL,
             time |-> MdTime(SkipSpaces(str, IF hasYear THEN y + 4 ELSE c))]
        MdYear(k, e, q, c, y) ==
            MdGroups(k, e, q, c, y,
                     c <= Len(str) /\ str[c] = "," /\ DigitRun(str, y, 4) = 4)
        MdDay(k, e, q, r) == MdYear(k, e, q, q + r, SkipSpaces(str, q + r + 1))
        MdSpace(k, e, q) == MdDay(k, e, q, DigitRun(str, q, 2))
        MdName(k, e) == MdSpace(k, e, SkipSpaces(str, e))
        MdStart(k) == IF k = 0 THEN NoMatch ELSE MdName(k, k + LetterRun(str, k))
    IN  MdStart(MdFrom(str, 1))

\* `${mon} ${dayNum}, ${year}` + (timeStr ? ` ${timeStr}` : ''), or without the comma
dateString(md, year, comma) ==
    md.mon \o <<" ">> \o Digits(parseInt(md.day))
    \o (IF comma THEN <<",">> ELSE <<>>) \o <<" ">> \o Digits(year)
    \o (IF md.time # NULL THEN <<" ">> \o md.time ELSE <<>>)

parseMonthDay(md, year) ==
    LET \* Date.parse of the date string, then of the one without the comma
        ParsedOr(p) ==
            IF isFinite(p) THEN p ELSE DateParse(dateString(md, year, FALSE))
    IN  ParsedOr(DateParse(dateString(md, year, TRUE)))

\* a > b on two Dates
After(a, b) == a.s > b.s \/ (a.s = b.s /\ a.ms > b.ms)

RelativeMonth(relTxt, nowDate) ==
    LET \* the month/day branch with its roll-back of the year: the Date, or InvalidDate
        RolledBack(md, year, parsed) ==
            IF ~isFinite(parsed) THEN InvalidDate
            ELSE IF After(parsed, nowDate) THEN DateParse(dateString(md, year - 1, TRUE))
            ELSE parsed
        MonthIn(md, year) == RolledBack(md, year, parseMonthDay(md, year))
        MonthOf(md) ==
            IF md = NoMatch THEN InvalidDate
            ELSE MonthIn(md, IF md.year # NULL THEN parseInt(md.year) ELSE getFullYear(nowDate))
    IN  MonthOf(mdMatch(relTxt))

NoPost == [create_time_unix |-> -1, create_time_iso |-> NULL, ts_source |-> "none"]

Stamp(d, source) ==
    [create_time_unix |-> d.s, create_time_iso |-> toISOString(d), ts_source |-> source]

\* what a tier found: the Date and the tier's name
Found(d, source) == [date |-> d, source |-> source]

\* the page.evaluate callback of the desktop scrape, tiers 1 to 4
DesktopEvaluate(d, now) ==
    LET \* The tiers of the desktop scrape from the last to the first, each on the
        \* value it read: what the first successful tier found, or NoMatch.
        DeskMonth(md) ==
            IF isFinite(md) THEN Found(md, "desktop:relative-month") ELSE NoMatch
        DeskParsed(relTxt, p4) ==
            IF isFinite(p4) THEN Found(p4, "desktop:Date.parse(relative)")
            ELSE DeskMonth(RelativeMonth(relTxt, now))
        DeskRelative(relTxt, rel) ==
            IF isFinite(rel) THEN Found(rel, "desktop:relative")
            ELSE DeskParsed(relTxt, DateParse(relTxt))
        DeskText(relTxt) ==
            IF relTxt = NULL THEN NoMatch
            ELSE DeskRelative(relTxt, ExplicitRelative(relTxt, now))
        DeskAttr(p3) ==
            IF d.attr # NULL /\ isFinite(p3) THEN Found(p3, "desktop:attr")
            ELSE DeskText(trim(d.relTxt))
        DeskDatetime(p2) ==
            IF d.datetime # NULL /\ isFinite(p2) THEN Found(p2, "desktop:time[datetime]")
            ELSE DeskAttr(DateParse(trim(stripUpdated(d.attr))))
        DeskUtime(ut) ==
            IF d.utime # NULL /\ ~isNaN(ut) THEN Found([s |-> ut, ms |-> 0], "desktop:data-utime")
            ELSE DeskDatetime(DateParse(d.datetime))
        Stamped(f) == IF f = NoMatch THEN NoPost ELSE Stamp(f.date, f.source)
    IN  Stamped(DeskUtime(jsParseInt(d.utime)))

\* the mpage.evaluate callback of the mobile fallback
MobileEvaluate(m) ==
    LET \* the tiers of the mobile fallback, in the same manner
        MobAttr(p3) ==
            IF m.attr # NULL /\ isFinite(p3) THEN Found(p3, "mobile:attr") ELSE NoMatch
        MobDatetime(p2) ==
            IF m.datetime # NULL /\ isFinite(p2) THEN Found(p2, "mobile:time[datetime]")
            ELSE MobAttr(DateParse(trim(stripUpdated(m.attr))))
        MobUtime(ut) ==
            IF m.utime # NULL /\ ~isNaN(ut) THEN Found([s |-> ut, ms |-> 0], "mobile:data-utime")
            ELSE MobDatetime(DateParse(m.datetime))
        MobileStamped(f) ==
            IF f = NoMatch THEN [unix |-> -1, iso |-> NULL, source |-> "mobile:none"]
            ELSE [unix |-> f.date.s, iso |-> toISOString(f.date), source |-> f.source]
    IN  MobileStamped(MobUtime(jsParseInt(m.utime)))

GoodUtime == <<"1", "7", "5", "7", "0", "0", "0", "0", "0", "0">>

GoodAttr ==
    <<"U", "p", "d", "a", "t", "e", "d", " ", "2", "0", "2", "5", "-", "0", "9", "-",
      "0", "9", "T", "2", "0", ":", "1", "5", ":", "0", "0", "+", "0", "8", ":", "0",
      "0">>

RelTexts ==
    { NULL, Junk, GoodAria,
      <<"J", "u", "s", "t", " ", "n", "o", "w">>,
      <<"Y", "e", "s", "t", "e", "r", "d", "a", "y">>,
      <<"3", " ", "d", "a", "y", "s">>,
      <<"S", "e", "p", "t", "e", "m", "b", "e", "r", " ", "1", "3">>,
      GoodText,
      <<"D", "e", "c", "e", "m", "b", "e", "r", " ", "2", "5", " ", "a", "t", " ",
        "3", ":", "0", "0", " ", "P", "M">> }

Desks ==
    [utime : {NULL, GoodUtime, Junk}, datetime : {NULL, GoodDatetime, Junk},
     attr : {NULL, GoodAttr, Junk}, relTxt : RelTexts]

Mobiles ==
    [utime : {NULL, GoodUtime, Junk}, datetime : {NULL, GoodDatetime, Junk},
     attr : {NULL, GoodAttr, Junk}]

NoDesk == [utime |-> NULL, datetime |-> NULL, attr |-> NULL, relTxt |-> NULL]

NoMobile == [utime |-> NULL, datetime |-> NULL, attr |-> NULL]

DetailsIdle ==
    /\ dpc = "idle"
    /\ desk = NoDesk
    /\ mobile = NoMobile
    /\ post = NoPost

\* const post = await page.evaluate(...)
DesktopScrape ==
    /\ entry = "main" /\ dpc = "idle"
    /\ \E d \in Desks :
        /\ desk' = d
        /\ post' = DesktopEvaluate(d, clock)
    /\ dpc' = "desktop"
    /\ UNCHANGED <<batchVars, entry, tz, clock, parserVars, resolverVars, mobile>>

\* the navigation or the evaluation of the desktop page throws
DesktopThrows ==
    /\ entry = "main" /\ dpc = "idle"
    /\ dpc' = "threw"
    /\ UNCHANGED <<batchVars, entry, tz, clock, parserVars, resolverVars, desk, mobile, post>>

\* a fallback that copies the mobile outcome without looking at its instant
MobileFallbackUnguarded ==
    /\ dpc = "desktop"
    /\ post.create_time_iso = NULL
    /\ \E m \in Mobiles :
        /\ mobile' = m
        /\ post' = [create_time_unix |-> MobileEvaluate(m).unix,
                    create_time_iso  |-> MobileEvaluate(m).iso,
                    ts_source        |-> MobileEvaluate(m).source]
    /\ dpc' = "done"
    /\ UNCHANGED <<batchVars, entry, tz, clock, parserVars, resolverVars, desk>>

\* if (!post.create_time_iso) { ... mpage.evaluate ... }
MobileFallback ==
    /\ dpc = "desktop"
    /\ post.create_time_iso = NULL
    /\ \E m \in Mobiles :
        /\ mobile' = m
        /\ post' = IF MobileEvaluate(m).iso # NULL
                   THEN [create_time_unix |-> MobileEvaluate(m).unix,
                         create_time_iso  |-> MobileEvaluate(m).iso,
                         ts_source        |-> MobileEvaluate(m).source]
                   ELSE post
    /\ dpc' = "done"
    /\ UNCHANGED <<batchVars, entry, tz, clock, parserVars, resolverVars, desk>>

\* the mobile page cannot be opened or evaluated: finally closes it, the error leaves
MobileThrows ==
    /\ dpc = "desktop"
    /\ post.create_time_iso = NULL
    /\ dpc' = "threw"
    /\ UNCHANGED <<batchVars, entry, tz, clock, parserVars, resolverVars, desk, mobile, post>>

\* return post, the desktop scrape having found the time
DetailsReturn ==
    /\ dpc = "desktop"
    /\ post.create_time_iso # NULL
    /\ dpc' = "done"
    /\ UNCHANGED <<batchVars, entry, tz, clock, parserVars, resolverVars, desk, mobile, post>>

(***************************************************************************)
(* flows/dates.js: runPostDates(page, urls, waits)                         *)
(***************************************************************************)
\* the longest input list
MaxUrls == 3

BatchIdle ==
    /\ urls = <<>>
    /\ batchIdx = 1
    /\ bpc = "idle"
    /\ status = "success"
    /\ dataset = <<>>
    /\ faults = <<>>

\* an awaited call inside the try block returns, and the loop body goes on at
\* next, or it throws, and the catch block is entered
Await(step, next) ==
    \E ok \in BOOLEAN :
        IF ok
        THEN /\ bpc' = next
             /\ UNCHANGED faults
        ELSE /\ bpc' = "catch"
             /\ faults' = [faults EXCEPT ![batchIdx] = @ \cup {step}]

\* for (const postUrl of urls): const result = { url, item_type, status: "success" }
NextUrl ==
    /\ entry = "batch" /\ bpc = "loop" /\ batchIdx <= Len(urls)
    /\ status' = "success"
    /\ bpc' = "goto"
    /\ UNCHANGED <<entry, tz, clock, parserVars, resolverVars, detailsVars, urls, batchIdx,
                   dataset, faults>>

\* the list is exhausted: runPostDates returns
BatchReturns ==
    /\ entry = "batch" /\ bpc = "loop" /\ batchIdx > Len(urls)
    /\ bpc' = "returned"
    /\ UNCHANGED <<entry, tz, clock, parserVars, resolverVars, detailsVars, urls, batchIdx,
                   status, dataset, faults>>

\* await page.goto(postUrl, ...)
Goto ==
    /\ bpc = "goto"
    /\ Await("goto", "wait")
    /\ UNCHANGED <<entry, tz, clock, parserVars, resolverVars, detailsVars, urls, batchIdx,
                   status, dataset>>

\* await page.waitForTimeout(rand(min_wait_ms, max_wait_ms))
WaitForTimeout ==
    /\ bpc = "wait"
    /\ Await("wait", "extract")
    /\ UNCHANGED <<entry, tz, clock, parserVars, resolverVars, detailsVars, urls, batchIdx,
                   status, dataset>>

\* const timeInfo = await extractPostDateISO(page), which returns { iso,
\* source }, returns null or throws; if (!timeInfo) throw new Error(...);
\* Object.assign(result, timeInfo) leaves result.status as it is
Extract ==
    /\ bpc = "extract"
    /\ \E outcome \in {"info", "unresolved", "extract"} :
           IF outcome = "info"
           THEN /\ bpc' = "push"
                /\ UNCHANGED faults
           ELSE /\ bpc' = "catch"
                /\ faults' = [faults EXCEPT ![batchIdx] = @ \cup {outcome}]
    /\ UNCHANGED <<entry, tz, clock, parserVars, resolverVars, detailsVars, urls, batchIdx,
                   status, dataset>>

\* await Dataset.pushData(result), in the try block
PushData ==
    /\ bpc = "push"
    /\ Await("push", "log")
    /\ dataset' = IF bpc' = "log"
                  THEN Append(dataset, [url |-> urls[batchIdx], status |-> status])
                  ELSE dataset
    /\ UNCHANGED <<entry, tz, clock, parserVars, resolverVars, detailsVars, urls, batchIdx,
                   status>>

\* log.info(`Date OK: ...`): the try block ends and the loop goes on
LogInfo ==
    /\ bpc = "log"
    /\ Await("log", "loop")
    /\ batchIdx' = IF bpc' = "loop" THEN batchIdx + 1 ELSE batchIdx
    /\ UNCHANGED <<entry, tz, clock, parserVars, resolverVars, detailsVars, urls, status,
                   dataset>>

\* catch (err) { result.status = "error"; result.error = ...
Catch ==
    /\ bpc = "catch"
    /\ status' = "error"
    /\ bpc' = "catchPush"
    /\ UNCHANGED <<entry, tz, clock, parserVars, resolverVars, detailsVars, urls, batchIdx,
                   dataset, faults>>

\* await Dataset.pushData(result), in the catch block: a rejection here is
\* caught by nothing and leaves runPostDates
CatchPushData ==
    /\ bpc = "catchPush"
    /\ \E ok \in BOOLEAN :
           IF ok
           THEN /\ dataset' = Append(dataset, [url |-> urls[batchIdx], status |-> status])
                /\ bpc' = "catchLog"
                /\ UNCHANGED faults
           ELSE /\ bpc' = "threw"
                /\ faults' = [faults EXCEPT ![batchIdx] = @ \cup {"catchPush"}]
                /\ UNCHANGED dataset
    /\ UNCHANGED <<entry, tz, clock, parserVars, resolverVars, detailsVars, urls, batchIdx,
                   status>>

\* log.warning(`Date FAIL: ...`): the catch block ends and the loop goes on
LogWarning ==
    /\ bpc = "catchLog"
    /\ \E ok \in BOOLEAN :
           IF ok
           THEN /\ batchIdx' = batchIdx + 1
                /\ bpc' = "loop"
                /\ UNCHANGED faults
           ELSE /\ bpc' = "threw"
                /\ faults' = [faults EXCEPT ![batchIdx] = @ \cup {"catchLog"}]
                /\ UNCHANGED batchIdx
    /\ UNCHANGED <<entry, tz, clock, parserVars, resolverVars, detailsVars, urls, status,
                   dataset>>

NoInput == [form |-> "none"]

ParserIdle ==
    /\ pIn = NoInput
    /\ pText = <<>>
    /\ pNow = [s |-> 1757736000, ms |-> 0]
    /\ pOut = NULL

ParserInit ==
    /\ entry = "test"
    /\ tz \in Zones
    /\ clock = [s |-> 1757736000, ms |-> 0]
    /\ ParserIdle
    /\ ResolverIdle
    /\ DetailsIdle
    /\ BatchIdle
    /\ dom = <<>>

\* _test__relativeTo(s, now)
RelativeTo ==
    \E in \in ParserInputs, now \in TestClocks :
        /\ entry = "test"
        /\ pIn = NoInput
        /\ pIn' = in
        /\ pText' = Render(in)
        /\ pNow' = now
        /\ pOut' = parseLooseDate(Render(in), now)
        /\ UNCHANGED <<batchVars, entry, tz, clock, resolverVars, detailsVars>>

ParserNext == RelativeTo

SpecParser == ParserInit /\ [][ParserNext]_vars


(***************************************************************************)
(* The pages resolved                                                      *)
(***************************************************************************)
AllElements ==
    [datetime : {NULL, GoodDatetime, Junk}, title : {NULL, GoodTitle, Junk},
     aria : {NULL, GoodAria, Junk}, text : {NULL, GoodText, Junk}]

AttrCount(el) ==
    (IF el.datetime # NULL THEN 1 ELSE 0) + (IF el.title # NULL THEN 1 ELSE 0)
    + (IF el.aria # NULL THEN 1 ELSE 0) + (IF el.text # NULL THEN 1 ELSE 0)

\* elements carrying at most MaxAttrs of the four signals
MaxAttrs == 2

Elements == {el \in AllElements : AttrCount(el) <= MaxAttrs}

\* an element that contributes one unparsable text candidate
Filler == [datetime |-> NULL, title |-> NULL, aria |-> NULL, text |-> Junk]

\* an element carrying all four signals, each of them good
FullElement ==
    [datetime |-> GoodDatetime, title |-> GoodTitle, aria |-> GoodAria,
     text |-> GoodText]

\* a second element carries one signal
SingleSignal == {el \in AllElements : AttrCount(el) = 1}

\* long pages: MinFill..MaxFill filler elements, then one element of LastElements
MaxFill == 50

LastElements ==
    { FullElement,
      [FullElement EXCEPT !.datetime = NULL],
      [FullElement EXCEPT !.datetime = Junk],
      [FullElement EXCEPT !.datetime = NULL, !.title = NULL],
      [FullElement EXCEPT !.datetime = NULL, !.title = Junk, !.aria = NULL] }

Pages ==
    {<<>>}
    \cup {<<el>> : el \in Elements}
    \cup {<<el, second>> : el \in Elements, second \in SingleSignal}
    \cup {[k \in 1..(n + 1) |-> IF k <= n THEN Filler ELSE last] :
              n \in (Cap - 2)..MaxFill, last \in LastElements}

Init ==
    /\ entry \in {"dates", "main"}
    /\ tz \in Zones
    /\ clock = [s |-> 1757736000, ms |-> 0]
    /\ ParserIdle
    /\ ResolverIdle
    /\ DetailsIdle
    /\ BatchIdle
    /\ dom \in Pages
    /\ entry = "main" => dom = <<>>
    /\ Len(dom) > 2 => tz = "UTC"

Next ==
    \/ Harvest
    \/ HarvestThrows
    \/ DatetimeSkip
    \/ DatetimeTry
    \/ DatetimeEnd
    \/ TextSkip
    \/ TextTry
    \/ TextEnd
    \/ OcrStepDone
    \/ OcrStepThrows
    \/ OcrParse
    \/ Tick
    \/ DesktopScrape
    \/ DesktopThrows
    \/ MobileFallback
    \/ MobileThrows
    \/ DetailsReturn

Spec == Init /\ [][Next]_vars

\* runPostDates on its own, on a list of up to MaxUrls distinct post URLs:
\* page, Dataset and log are its environment
BatchInit ==
    /\ entry = "batch"
    /\ tz = "UTC"
    /\ clock = [s |-> 1757736000, ms |-> 0]
    /\ ParserIdle
    /\ ResolverIdle
    /\ DetailsIdle
    /\ dom = <<>>
    /\ urls \in {[i \in 1..n |-> [post |-> i]] : n \in 0..MaxUrls}
    /\ batchIdx = 1
    /\ bpc = "loop"
    /\ status = "success"
    /\ dataset = <<>>
    /\ faults = [i \in 1..Len(urls) |-> {}]

BatchNext ==
    \/ NextUrl
    \/ BatchReturns
    \/ Goto
    \/ WaitForTimeout
    \/ Extract
    \/ PushData
    \/ LogInfo
    \/ Catch
    \/ CatchPushData
    \/ LogWarning

SpecBatch == BatchInit /\ [][BatchNext]_vars


(***************************************************************************)
(* Properties of parseLooseDate                                            *)
(***************************************************************************)
\* the instant the parser returned, read back from its ISO text
Returned == IsoValue(pOut)

\* the 12-hour conversion: 12 AM is hour 0, 12 PM hour 12, other PM hours +12
StatedHour(time) ==
    IF time.h = 12
    THEN (IF time.ampm = <<"P", "M">> THEN 12 ELSE 0)
    ELSE (IF time.ampm = <<"P", "M">> THEN time.h + 12 ELSE time.h)

\* a local time that some instant of the zone shows
LocalExists(t) ==
    \E off \in {StdOffset(tz), DstOffset(tz)} : OffsetAt(tz, t - off) = off

UnitSeconds(unit) ==
    CASE unit = "m" -> 60
      [] unit = "h" -> 3600
      [] unit = "d" -> 86400

\* C4 as stated: a short relative text <N>m, <N>h or <N>d resolves to the
\* reference clock minus exactly N*60, N*3600 or N*86400 seconds.
C4_ShortRelativeExact ==
    pIn.form = "rel" =>
        /\ pOut # NULL
        /\ Returned = [s |-> pNow.s - pIn.n * UnitSeconds(pIn.unit), ms |-> pNow.ms]

\* the month/day of the input on the local calendar of a year, at a time
LocalInstant(year, in, hour, min) ==
    MakeDate(MakeDay(year, in.month - 1, in.day), MakeTime(hour, min, 0))

RealDay(in) == in.day <= DaysInMonth(YearFromTime(LocalTime(pNow.s)), in.month)

\* C5 as stated: a month/day text without a year whose parse in the reference
\* clock's year is strictly after the reference clock is resolved one year
\* earlier, and the instant returned is at or before the reference clock.
C5_YearRollback ==
    (pIn.form = "monthday" /\ RealDay(pIn)) =>
        LET year   == YearFromTime(LocalTime(pNow.s))
            hour   == IF pIn.timed THEN StatedHour(pIn.time) ELSE 0
            min    == IF pIn.timed THEN pIn.time.m ELSE 0
            naive  == UTC(LocalInstant(year, pIn, hour, min))
            rolled == UTC(LocalInstant(year - 1, pIn, hour, min))
        IN  /\ pOut # NULL
            /\ naive > pNow.s =>
                   (Returned = [s |-> rolled, ms |-> 0] /\ Returned.s <= pNow.s)

\* C6 as stated: '<Month> <Day> at <H:MM AM|PM>' resolves to that month and day
\* of the reference clock's year at the stated time, seconds and milliseconds
\* zero; with reference clock 2025-09-13T12:00:00+08:00, 'September 13 at
\* 2:34 PM' resolves to 2025-09-13T14:34:00+08:00; with the time omitted the
\* result is midnight of that day.
C6_MonthDayAtTime ==
    /\ (pIn.form = "monthday" /\ RealDay(pIn)) =>
           LET year   == YearFromTime(LocalTime(pNow.s))
               hour   == IF pIn.timed THEN StatedHour(pIn.time) ELSE 0
               min    == IF pIn.timed THEN pIn.time.m ELSE 0
               wanted == LocalInstant(year, pIn, hour, min)
           IN  /\ pOut # NULL
               /\ Returned.ms = 0
               /\ LocalExists(wanted) => LocalTime(Returned.s) = wanted
    /\ (pNow = [s |-> 1757736000, ms |-> 0]
        /\ pIn = [form |-> "monthday", month |-> 9, day |-> 13, timed |-> TRUE,
                  time |-> [h |-> 2, m |-> 34, ampm |-> <<"P", "M">>]]) =>
           (pOut # NULL /\ Returned = [s |-> 1757745240, ms |-> 0])

Positions(kinds) == {i \in 1..Len(found) : found[i].kind \in kinds}

TextKinds == {"title", "aria", "text"}

Least(S) == CHOOSE i \in S : \A j \in S : i <= j

\* the datetime candidates of found that normalize, the text candidates that parse
Normalizing == {i \in Positions({"datetime"}) : normalizeToISO(found[i].value) # NULL}

Parsing == {i \in Positions(TextKinds) : parseLooseDate(found[i].value, clock) # NULL}

\* the calls made on candidates, by function
CallsOf(fn) == {k \in DOMAIN calls : calls[k].fn = fn}

\* main.js: the data-utime attribute holds a number, time[datetime] holds a date
UtimeOk == desk.utime # NULL /\ IsDigit(desk.utime[1])

DatetimeOk == desk.datetime # NULL /\ isFinite(DateParse(desk.datetime))

Scraped == dpc \in {"desktop", "done"}

\* C1 as stated: a datetime candidate that normalizes always produces the
\* result, whatever epoch or text candidates are present, in both resolvers.
C1_DatetimeAlwaysFirst ==
    /\ (pc = "done" /\ Normalizing # {}) =>
           (result # NullResult /\ result.source = "dom_datetime")
    /\ (Scraped /\ DatetimeOk) => post.ts_source = "desktop:time[datetime]"

\* C1 amended: extractPostDateISO consults a text candidate only after every
\* datetime candidate was tried and failed, and a datetime candidate that
\* normalizes produces the result wherever it sits (it harvests no epoch
\* candidate); extractPostDetails tries data-utime before time[datetime], and
\* the attribute and visible texts only when both yielded nothing.
C1_TierOrder ==
    LET normalizing == Normalizing
        parses == CallsOf("parseLooseDate")
    IN
    /\ parses # {} =>
           /\ normalizing = {}
           /\ \A i \in Positions({"datetime"}) :
                  \E j \in 1..(Least(parses) - 1) :
                      calls[j].fn = "normalizeToISO" /\ calls[j].idx = i
    /\ (pc = "done" /\ normalizing # {}) =>
           result = [iso    |-> normalizeToISO(found[Least(normalizing)].value),
                     source |-> "dom_datetime"]
    /\ Scraped =>
           /\ UtimeOk => post.ts_source = "desktop:data-utime"
           /\ (~UtimeOk /\ DatetimeOk) =>
                  /\ post.ts_source = "desktop:time[datetime]"
                  /\ post.create_time_iso = toISOString(DateParse(desk.datetime))
           /\ post.ts_source \in {"desktop:attr", "desktop:relative",
                                  "desktop:Date.parse(relative)",
                                  "desktop:relative-month"} =>
                  ~UtimeOk /\ ~DatetimeOk

\* a text candidate that parses sits before the datetime candidate that wins
C1_Witness ==
    /\ pc = "done"
    /\ result # NullResult
    /\ result.source = "dom_datetime"
    /\ \E i \in Positions(TextKinds) :
           /\ i < Least(Normalizing)
           /\ parseLooseDate(found[i].value, clock) # NULL

\* C2: recognize is called at most once, never when a candidate of found
\* resolves, and only after every candidate of found was tried and failed.
C2_OcrOnlyAfterAllFailed ==
    LET recognitions == CallsOf("recognize")
    IN
    /\ Cardinality(recognitions) <= 1
    /\ (recognitions # {} \/ pc = "ocr" \/ worker # "none") =>
           (Normalizing = {} /\ Parsing = {})
    /\ \A k \in recognitions :
           \A i \in 1..Len(found) :
               \E j \in 1..(k - 1) :
                   /\ calls[j].idx = i
                   /\ calls[j].fn = IF found[i].kind = "datetime"
                                    THEN "normalizeToISO" ELSE "parseLooseDate"

\* the OCR ran after candidates of both tiers had failed
C2_Witness ==
    /\ CallsOf("recognize") # {}
    /\ Positions({"datetime"}) # {}
    /\ Positions(TextKinds) # {}

\* the OCR block was entered and is over
OcrOver ==
    /\ pc = "done"
    /\ (result = NullResult \/ result.source = "ocr")

\* C3: a step of the OCR block that throws ends the resolution with null and
\* no exception; so does recognized text that the parser cannot parse; an
\* exception only ever leaves the resolver from the harvest.
C3_OcrFailureIsNull ==
    /\ threw => (pc = "threw" /\ calls = <<>> /\ worker = "none" /\ ocrStep = 1)
    /\ pc = "threw" => threw
    /\ (OcrOver /\ ocrStep <= Len(OcrSteps)) => result = NullResult
    /\ (OcrOver /\ ocrStep > Len(OcrSteps)
        /\ parseLooseDate(trim(collapseSpaces(ocrText)), clock) = NULL) =>
           result = NullResult

\* the recognition itself threw, after the worker was initialized
C3_Witness ==
    /\ OcrOver
    /\ OcrSteps[ocrStep] = "recognize"
    /\ result = NullResult
    /\ ~threw

\* the calls of parseLooseDate on candidates, in the order made
CandidateParses ==
    SelectSeq(calls, LAMBDA c : c.fn = "parseLooseDate" /\ c.idx > 0)

\* C8: the text tier parses title, aria and text candidates in harvested
\* order, one after the other; the first that parses produces the result under
\* its own kind, and none after it is examined.
C8_TextTierInOrder ==
    LET parses == CandidateParses
        texts == Positions(TextKinds)
        parsing == Parsing
        first == Least(parsing)
    IN
    /\ \A k \in DOMAIN parses :
           /\ parses[k].idx \in texts
           /\ Cardinality({i \in texts : i < parses[k].idx}) = k - 1
    /\ (pc = "done" /\ parses # <<>> /\ parsing # {}) => parses[Len(parses)].idx <= first
    /\ (pc = "done" /\ Normalizing = {} /\ parsing # {}) =>
           /\ result # NullResult
           /\ result.source = "dom_" \o found[first].kind
           /\ parses[Len(parses)].idx = first
           /\ result.iso = parseLooseDate(found[first].value, parses[Len(parses)].now)

\* a free-text candidate won although a title that parses comes later
C8_Witness ==
    /\ pc = "done"
    /\ result # NullResult
    /\ result.source = "dom_text"
    /\ LET parsing == Parsing
       IN /\ \E i \in parsing : found[i].kind = "title" /\ i > Least(parsing)
          /\ \E i \in Positions(TextKinds) : i < Least(parsing)

\* the candidates of the whole page that would resolve, by position
Resolvable ==
    LET all == Candidates(dom)
    IN {i \in 1..Len(all) :
           IF all[i].kind = "datetime"
           THEN normalizeToISO(all[i].value) # NULL
           ELSE parseLooseDate(all[i].value, clock) # NULL}

\* C9: found holds the first 50 candidates of the page in order, only those
\* are ever passed to a parser, and a result drawn from the page is drawn from
\* one of them: with nothing resolvable among the first 50 the page yields no
\* result, whatever comes later.
C9_HarvestCap ==
    /\ Len(found) <= 50
    /\ pc \notin {"idle", "threw"} =>
           LET all == Candidates(dom)
           IN /\ Len(found) = (IF Len(all) < 50 THEN Len(all) ELSE 50)
              /\ \A i \in 1..Len(found) : found[i] = all[i]
    /\ \A k \in DOMAIN calls : calls[k].idx <= 50
    /\ (pc = "done" /\ \A i \in Resolvable : i > 50) =>
           (result = NullResult \/ result.source = "ocr")

\* only a candidate past the cap would resolve, and the page gave no result
C9_Witness ==
    /\ pc = "done"
    /\ Len(Candidates(dom)) > 50
    /\ LET resolvable == Resolvable
       IN resolvable # {} /\ \A i \in resolvable : i > 50
    /\ Len(CandidateParses) = 50
    /\ result = NullResult

\* the value the last call on a candidate was made on
LastCall == calls[Len(calls)]

\* C10: a result of extractPostDateISO is null or an instant with the tag of
\* the one call that produced it (the candidate's kind, or ocr); in main.js
\* the instant and the tag are set together: the instant is non-null exactly
\* when the tag is not 'none', and each tag names the tier whose value it is.
C10_Provenance ==
    /\ (pc # "done") => result = NullResult
    /\ (pc = "done" /\ result # NullResult) =>
           /\ result.iso # NULL
           /\ \/ /\ result.source = "dom_datetime"
                 /\ LastCall.fn = "normalizeToISO"
                 /\ found[LastCall.idx].kind = "datetime"
                 /\ result.iso = normalizeToISO(found[LastCall.idx].value)
              \/ /\ \E kind \in TextKinds :
                        /\ result.source = "dom_" \o kind
                        /\ found[LastCall.idx].kind = kind
                 /\ LastCall.fn = "parseLooseDate"
                 /\ result.iso = parseLooseDate(found[LastCall.idx].value, LastCall.now)
              \/ /\ result.source = "ocr"
                 /\ LastCall = [fn |-> "parseLooseDate", idx |-> 0, now |-> LastCall.now]
                 /\ result.iso = parseLooseDate(trim(collapseSpaces(ocrText)), LastCall.now)
    /\ (post.create_time_iso # NULL) <=> (post.ts_source # "none")
    /\ (post.create_time_iso = NULL) <=> (post.create_time_unix = -1)
    /\ post.ts_source = "desktop:data-utime" =>
           post.create_time_iso = toISOString([s |-> Num(desk.utime, 1, Len(desk.utime)),
                                               ms |-> 0])
    /\ post.ts_source = "desktop:time[datetime]" =>
           post.create_time_iso = toISOString(DateParse(desk.datetime))
    /\ post.ts_source = "mobile:data-utime" =>
           post.create_time_iso = toISOString([s |-> Num(mobile.utime, 1, Len(mobile.utime)),
                                               ms |-> 0])
    /\ post.ts_source = "mobile:time[datetime]" =>
           post.create_time_iso = toISOString(DateParse(mobile.datetime))
    /\ post.ts_source \in
           {"none", "desktop:data-utime", "desktop:time[datetime]", "desktop:attr",
            "desktop:relative", "desktop:Date.parse(relative)", "desktop:relative-month",
            "mobile:data-utime", "mobile:time[datetime]", "mobile:attr"}

\* the mobile fallback ran and found nothing: no instant, and the tag 'none'
C10_Witness ==
    /\ dpc = "done"
    /\ mobile # NoMobile
    /\ mobile.attr = Junk
    /\ post.create_time_iso = NULL
    /\ post.ts_source = "none"

\* the calls of parseLooseDate the resolver made, on candidates and on the
\* recognized text
LooseCalls == {k \in DOMAIN calls : calls[k].fn = "parseLooseDate"}

\* C11: every relative computation of one resolution uses the wall-clock
\* instant read when the resolution began: each call of parseLooseDate is made
\* on that instant, and a result that comes from a text candidate or from the
\* recognized text is what parseLooseDate gives for that instant.
C11_SingleReferenceClock ==
    /\ \A k \in LooseCalls : calls[k].now = startClock
    /\ (pc = "done" /\ result # NullResult /\ result.source = "ocr") =>
           result.iso = parseLooseDate(trim(collapseSpaces(ocrText)), startClock)
    /\ (pc = "done" /\ result # NullResult
        /\ result.source \in {"dom_title", "dom_aria", "dom_text"}) =>
           result.iso = parseLooseDate(found[idx].value, startClock)

\* C13: when the resolver has returned (or thrown), no worker it created is
\* still alive.
C13_WorkerTerminated ==
    pc \in {"done", "threw"} => worker # "live"


(***************************************************************************)
(* Properties of runPostDates                                              *)
(***************************************************************************)
\* the positions in the dataset of the records of the i-th URL
RecordsOf(i) == {k \in DOMAIN dataset : dataset[k].url = urls[i]}

\* C12: the loop never stops on a failure, and every URL it has left behind
\* has exactly one record in the dataset, with status 'error' when a step
\* failed for it (the unresolved date included) and 'success' otherwise.
C12_OneRecordPerUrl ==
    /\ bpc # "threw"
    /\ \A i \in 1..Len(urls) :
           i < batchIdx =>
               /\ Cardinality(RecordsOf(i)) = 1
               /\ \A k \in RecordsOf(i) :
                      dataset[k].status = IF faults[i] = {} THEN "success" ELSE "error"

=============================================================================
